---------------------------- MODULE Spec2Model ----------------------------
(***************************************************************************)
(* Model of plotly_resampler/aggregation/aggregators.py: the selectors     *)
(* EveryNthPoint and MinMaxOverlapAggregator (_arg_downsample) and the     *)
(* aggregator FuncAggregator (_aggregate), which are the algorithms this   *)
(* file implements itself (LTTB, MinMax and MinMaxLTTB delegate to the     *)
(* tsdownsample package).                                                  *)
(*                                                                         *)
(* Arrays are sequences; positions are kept 0-based as in Python, so the   *)
(* element at position i of array s is s[i + 1].  A call either returns    *)
(* a value or raises; both outcomes are recorded in `ret`.                 *)
(***************************************************************************)
EXTENDS Integers, Sequences, FiniteSets, TLC

\* Bounds of the explored inputs.
MaxLen == 6     \* longest y when x is None
MaxVal == 2     \* y values are 0..MaxVal when x is None
MaxNOut == 6    \* n_out ranges over 1..MaxNOut
MaxXLen == 5    \* longest series when x is given
MaxX == 4       \* x values are 0..MaxX
MaxRampLen == 10  \* longest y when y is the ramp 0, 1, 2, ...

VARIABLES x, y, n_out, pc, ret, f_calls

vars == <<x, y, n_out, pc, ret, f_calls>>

---------------------------------------------------------------------------
\* Python / numpy primitives used by the file.

Max(a, b) == IF a >= b THEN a ELSE b

Min(a, b) == IF a <= b THEN a ELSE b

\* math.ceil(num / den) for den > 0.  The code evaluates the quotient in
\* double precision; a quotient whose exact value is an integer or a half
\* integer is representable, and any other is rounded to a double strictly
\* between the same two integers, so the ceiling is the exact one.
Ceil(num, den) == IF num % den = 0 THEN num \div den ELSE (num \div den) + 1

\* The element at 0-based position i.
At(s, i) == s[i + 1]

\* A slice bound as Python normalises it.
SliceBound(i, len) == IF i < 0 THEN Max(i + len, 0) ELSE Min(i, len)

\* s[a:b], clipped to the array as Python slicing is.
Slice(s, a, b) ==
    LET lo == SliceBound(a, Len(s))
        hi == SliceBound(b, Len(s))
    IN  IF lo >= hi THEN << >> ELSE [k \in 1..(hi - lo) |-> s[lo + k]]

\* np.arange(start, stop, step) for step > 0: start, start+step, ... < stop.
Arange(start, stop, step) ==
    LET cnt == IF stop <= start THEN 0 ELSE Ceil(stop - start, step)
    IN  [k \in 1..cnt |-> start + (k - 1) * step]

\* a.reshape(-1, ncol): rows of ncol consecutive elements; numpy refuses a
\* size that is no multiple of ncol.
CanReshape(s, ncol) == Len(s) % ncol = 0

Reshape(s, ncol) ==
    [r \in 1..(Len(s) \div ncol) |-> [c \in 1..ncol |-> s[(r - 1) * ncol + c]]]

\* Position of the first minimum of a non-empty row, scanning left to right
\* from position k with the best position so far in best.
RECURSIVE ArgminScan(_, _, _)
ArgminScan(row, k, best) ==
    IF k >= Len(row) THEN best
    ELSE ArgminScan(row, k + 1, IF At(row, k) < At(row, best) THEN k ELSE best)

\* Position of the first maximum, the same way.
RECURSIVE ArgmaxScan(_, _, _)
ArgmaxScan(row, k, best) ==
    IF k >= Len(row) THEN best
    ELSE ArgmaxScan(row, k + 1, IF At(row, k) > At(row, best) THEN k ELSE best)

\* Variant: the last maximum is taken instead of the first.
RECURSIVE ArgmaxScanLast(_, _, _)
ArgmaxScanLast(row, k, best) ==
    IF k >= Len(row) THEN best
    ELSE ArgmaxScanLast(row, k + 1, IF At(row, k) >= At(row, best) THEN k ELSE best)

ArgmaxRowsLast(m) == [r \in 1..Len(m) |-> ArgmaxScanLast(m[r], 1, 0)]

\* m.argmin(axis=1) and m.argmax(axis=1).
ArgminRows(m) == [r \in 1..Len(m) |-> ArgminScan(m[r], 1, 0)]

ArgmaxRows(m) == [r \in 1..Len(m) |-> ArgmaxScan(m[r], 1, 0)]

\* a + b on 1-d arrays under numpy broadcasting.
CanAdd(a, b) == Len(a) = Len(b) \/ Len(a) = 1 \/ Len(b) = 1

AddArrays(a, b) ==
    LET n == IF Len(a) = Len(b) THEN Len(a)
             ELSE IF Len(a) = 1 THEN Len(b) ELSE Len(a)
    IN  [k \in 1..n |-> (IF Len(a) = 1 THEN a[1] ELSE a[k])
                        + (IF Len(b) = 1 THEN b[1] ELSE b[k])]

AddScalar(a, c) == [k \in 1..Len(a) |-> a[k] + c]

\* np.unique(a): the distinct elements in increasing order.
RECURSIVE SortedSeq(_)
SortedSeq(S) ==
    IF S = {} THEN << >>
    ELSE LET m == CHOOSE e \in S : \A o \in S : e <= o
         IN  <<m>> \o SortedSeq(S \ {m})

\* Variant: the array is returned as it is, unsorted and with repetitions.
Unsorted(a) == a

Unique(a) == SortedSeq({a[k] : k \in 1..Len(a)})

\* Outcomes of a call.
Returned(indices, xs, ys) ==
    [status |-> "ok", exc |-> "", indices |-> indices, x_agg |-> xs, y_agg |-> ys]

Raised(e) ==
    [status |-> "raise", exc |-> e, indices |-> << >>, x_agg |-> << >>, y_agg |-> << >>]

NoCall == [status |-> "none", exc |-> "", indices |-> << >>, x_agg |-> << >>, y_agg |-> << >>]

---------------------------------------------------------------------------
\* MinMaxOverlapAggregator._arg_downsample

\* Variant: the block is one bin wide instead of two.
block_size_single(len, n) == Ceil(len, n + 1)

\* block_size = math.ceil(y.shape[0] / (n_out + 1) * 2); doubling a double
\* is exact, so this is the ceiling of 2 * len / (n_out + 1).
block_size(len, n) == Ceil(2 * len, n + 1)

argmax_offset(B) == B \div 2

\* offset = np.arange(0, stop=len - block_size - argmax_offset, step=block_size)
offset(len, B) == Arange(0, len - B - argmax_offset(B), B)

\* The view the min pass reshapes, y[: block_size * offset.shape[0]].
MinView(ya, B, W) == Slice(ya, 0, B * W)

\* The view the max pass reshapes,
\* y[argmax_offset : block_size * offset.shape[0] + argmax_offset].
MaxView(ya, B, W) == Slice(ya, argmax_offset(B), B * W + argmax_offset(B))

argmin(ya, B, off) == AddArrays(ArgminRows(Reshape(MinView(ya, B, Len(off)), B)), off)

argmax(ya, B, off) ==
    AddScalar(AddArrays(ArgmaxRows(Reshape(MaxView(ya, B, Len(off)), B)), off),
              argmax_offset(B))

\* Variant: the first and last position are not appended.
MinMaxOverlapResultNoEnds(amin, amax, len) == Unique(amin \o amax)

\* np.unique(np.concatenate((argmin, argmax, [0, y.shape[0] - 1])))
MinMaxOverlapResult(amin, amax, len) == Unique(amin \o amax \o <<0, len - 1>>)

\* The whole method.  np.arange raises ZeroDivisionError on a zero step,
\* reshape raises ValueError on a size that does not fit, and so does the
\* addition of arrays whose shapes do not broadcast.
MinMaxOverlap_arg_downsample(ya, n) ==
    LET B == block_size(Len(ya), n)
    IN  IF B = 0 THEN Raised("ZeroDivisionError")
        ELSE LET off == offset(Len(ya), B)
                 W == Len(off)
             IN  IF \/ ~CanReshape(MinView(ya, B, W), B)
                    \/ ~CanReshape(MaxView(ya, B, W), B)
                    \/ ~CanAdd(ArgminRows(Reshape(MinView(ya, B, W), B)), off)
                    \/ ~CanAdd(ArgmaxRows(Reshape(MaxView(ya, B, W), B)), off)
                 THEN Raised("ValueError")
                 ELSE Returned(MinMaxOverlapResult(argmin(ya, B, off),
                                                   argmax(ya, B, off), Len(ya)),
                               << >>, << >>)

---------------------------------------------------------------------------
\* EveryNthPoint._arg_downsample

\* Variant: the step is rounded down.
EveryNthStepFloor(len, n) == Max(1, len \div n)

\* step = max(1, math.ceil(len(y) / n_out))
EveryNthStep(len, n) == Max(1, Ceil(len, n))

\* np.arange(step=..., stop=len(y) - 1); x is not read.
EveryNthPoint_arg_downsample(ya, n) ==
    Returned(Arange(0, Len(ya) - 1, EveryNthStep(Len(ya), n)), << >>, << >>)

---------------------------------------------------------------------------
\* FuncAggregator._aggregate

\* The user's aggregation function is opaque: an application is kept as the
\* term that records the slice it was given.
aggregation_func(slice) == [applied_to |-> slice]

\* group_size = max(1, np.ceil(len(y) / n_out))
group_size(len, n) == Max(1, Ceil(len, n))

\* idxs = (np.arange(n_out) * group_size).astype(int)
IdxsNoX(len, n) == [k \in 1..n |-> (k - 1) * group_size(len, n)]

\* np.linspace(start, stop, num) for num >= 2, as exact fractions over the
\* common denominator div = num - 1: edge j is nums[j] / div.  numpy computes
\* start + j * ((stop - start) / div) in doubles and stores stop itself as
\* the last edge; for the integers explored here every edge that is an
\* integer is computed exactly and every other stays strictly between the
\* same two integers, so comparisons with integer x agree with the exact
\* ones.
Linspace(start, stop, num) ==
    [div |-> num - 1,
     nums |-> [j \in 1..num |-> start * (num - 1) + (j - 1) * (stop - start)]]

\* np.searchsorted(a, v) (side='left') for v = vnum / div: the bisection
\* that narrows [lo, hi) while a[mid] < v.
RECURSIVE Bisect(_, _, _, _, _)
Bisect(a, vnum, div, lo, hi) ==
    IF lo >= hi THEN lo
    ELSE LET mid == lo + ((hi - lo) \div 2)
         IN  IF At(a, mid) * div < vnum
             THEN Bisect(a, vnum, div, mid + 1, hi)
             ELSE Bisect(a, vnum, div, lo, mid)

\* Variant: side='right', which narrows while a[mid] <= v.
RECURSIVE BisectRight(_, _, _, _, _)
BisectRight(a, vnum, div, lo, hi) ==
    IF lo >= hi THEN lo
    ELSE LET mid == lo + ((hi - lo) \div 2)
         IN  IF At(a, mid) * div <= vnum
             THEN BisectRight(a, vnum, div, mid + 1, hi)
             ELSE BisectRight(a, vnum, div, lo, mid)

SearchsortedRight(a, vnum, div) == BisectRight(a, vnum, div, 0, Len(a))

Searchsorted(a, vnum, div) == Bisect(a, vnum, div, 0, Len(a))

\* idxs = np.searchsorted(x, np.linspace(x[0], x[-1], n_out + 1))
IdxsWithX(xa, n) ==
    LET e == Linspace(xa[1], xa[Len(xa)], n + 1)
    IN  [j \in 1..(n + 1) |-> Searchsorted(xa, e.nums[j], e.div)]

\* zip(idxs[:-1], idxs[1:])
Bins(idxs) == [j \in 1..(Len(idxs) - 1) |-> <<idxs[j], idxs[j + 1]>>]

\* y_agg = np.array([aggregation_func(y[t0:t1]) for t0, t1 in zip(...)])
YAgg(ya, idxs) ==
    [j \in 1..Len(Bins(idxs)) |->
        aggregation_func(Slice(ya, Bins(idxs)[j][1], Bins(idxs)[j][2]))]

\* x is None: idxs[-1] = len(y) - 1; x_agg = idxs
XAggNoX(idxs, len) == [idxs EXCEPT ![Len(idxs)] = len - 1]

\* x given: x_agg = x[idxs[:-1]]
XAggWithX(xa, idxs) == [j \in 1..(Len(idxs) - 1) |-> At(xa, idxs[j])]

\* A position numpy accepts when indexing an array of length len.
ValidIndex(i, len) == -len <= i /\ i < len

\* The whole method; xo is the optional x.  With x given, x[0] raises
\* IndexError on an empty array, and so does x[idxs[:-1]] on a position
\* outside the array.
FuncAggregator_aggregate(xo, ya, n) ==
    IF xo.none
    THEN LET idxs == IdxsNoX(Len(ya), n)
         IN  Returned(<< >>, XAggNoX(idxs, Len(ya)), YAgg(ya, idxs))
    ELSE IF Len(xo.arr) = 0 THEN Raised("IndexError")
    ELSE LET idxs == IdxsWithX(xo.arr, n)
         IN  IF \E j \in 1..(Len(idxs) - 1) : ~ValidIndex(idxs[j], Len(xo.arr))
             THEN Raised("IndexError")
             ELSE Returned(<< >>, XAggWithX(xo.arr, idxs), YAgg(ya, idxs))

\* The index ranges handed to the aggregation function, in call order.
FuncAggregatorCalls(xo, ya, n) ==
    IF xo.none THEN Bins(IdxsNoX(Len(ya), n))
    ELSE IF Len(xo.arr) = 0 THEN << >>
    ELSE Bins(IdxsWithX(xo.arr, n))

---------------------------------------------------------------------------
\* Inputs and calls.

None == [none |-> TRUE, arr |-> << >>]

Some(a) == [none |-> FALSE, arr |-> a]

NonDecreasing(a) == \A i \in 1..(Len(a) - 1) : a[i] <= a[i + 1]

\* Sample k of the series that comes with an x carries the value k.
Ramp(len) == [k \in 1..len |-> k - 1]

\* Either y alone (arbitrary small values, or a longer ramp), or a
\* non-decreasing x with a y of the same length.
Init ==
    /\ n_out \in 1..MaxNOut
    /\ \/ \E len \in 0..MaxLen :
            /\ y \in [1..len -> 0..MaxVal]
            /\ x = None
       \/ \E len \in 0..MaxRampLen :
            /\ y = Ramp(len)
            /\ x = None
       \/ \E len \in 0..MaxXLen :
            /\ y = Ramp(len)
            /\ \E a \in [1..len -> 0..MaxX] : NonDecreasing(a) /\ x = Some(a)
    /\ pc = "ready"
    /\ ret = NoCall
    /\ f_calls = << >>

EveryNthPoint ==
    /\ pc = "ready"
    /\ pc' = "EveryNthPoint"
    /\ ret' = EveryNthPoint_arg_downsample(y, n_out)
    /\ UNCHANGED <<x, y, n_out, f_calls>>

MinMaxOverlapAggregator ==
    /\ pc = "ready"
    /\ pc' = "MinMaxOverlapAggregator"
    /\ ret' = MinMaxOverlap_arg_downsample(y, n_out)
    /\ UNCHANGED <<x, y, n_out, f_calls>>

FuncAggregator ==
    /\ pc = "ready"
    /\ pc' = "FuncAggregator"
    /\ ret' = FuncAggregator_aggregate(x, y, n_out)
    /\ f_calls' = FuncAggregatorCalls(x, y, n_out)
    /\ UNCHANGED <<x, y, n_out>>

Next == EveryNthPoint \/ MinMaxOverlapAggregator \/ FuncAggregator

Spec == Init /\ [][Next]_vars

---------------------------------------------------------------------------
\* Vocabulary of the properties.

StrictlyIncreasing(s) == \A i \in 1..(Len(s) - 1) : s[i] < s[i + 1]

Elements(s) == {s[k] : k \in 1..Len(s)}

\* ceil(num / den) by its defining property.
CeilOf(num, den) == CHOOSE c \in 0..num : c * den >= num /\ (c - 1) * den < num

CalledEveryNth == pc = "EveryNthPoint"

CalledMinMaxOverlap == pc = "MinMaxOverlapAggregator"

CalledFunc == pc = "FuncAggregator"

\* The windows of MinMaxOverlap as the documentation describes them.
SpecB == CeilOf(2 * Len(y), n_out + 1)

SpecWindows == {j \in 0..Len(y) : j * SpecB < Len(y) - SpecB - (SpecB \div 2)}

\* First position of the minimum (maximum) of y over positions lo..hi-1.
FirstArgmin(lo, hi) ==
    CHOOSE i \in lo..(hi - 1) :
        /\ \A k \in lo..(hi - 1) : At(y, i) <= At(y, k)
        /\ \A k \in lo..(i - 1) : At(y, k) > At(y, i)

FirstArgmax(lo, hi) ==
    CHOOSE i \in lo..(hi - 1) :
        /\ \A k \in lo..(hi - 1) : At(y, i) >= At(y, k)
        /\ \A k \in lo..(i - 1) : At(y, k) < At(y, i)

---------------------------------------------------------------------------
\* C1: for len(y) >= 1 and n_out >= 1 EveryNthPoint returns exactly the
\* multiples k * step below len(y) - 1, in increasing order, with
\* step = max(1, ceil(len(y) / n_out)); len(y) = 8, n_out = 4 gives
\* [0, 2, 4, 6].
C1_EveryNthIndices ==
    (CalledEveryNth /\ Len(y) >= 1) =>
        LET step == Max(1, CeilOf(Len(y), n_out))
        IN  /\ ret.status = "ok"
            /\ \A k \in 1..Len(ret.indices) : ret.indices[k] = (k - 1) * step
            /\ Elements(ret.indices)
                 = {i \in 0..Len(y) : i % step = 0 /\ i < Len(y) - 1}
            /\ (Len(y) = 8 /\ n_out = 4) => ret.indices = <<0, 2, 4, 6>>

C1_Witness ==
    /\ CalledEveryNth
    /\ Len(y) = 8
    /\ n_out = 4
    /\ ret.indices = <<0, 2, 4, 6>>

\* C2: for len(y) >= 1 the indices MinMaxOverlap returns contain 0 and
\* len(y) - 1, whatever the values and however many windows fit.
C2_Endpoints ==
    (CalledMinMaxOverlap /\ Len(y) >= 1) =>
        /\ ret.status = "ok"
        /\ 0 \in Elements(ret.indices)
        /\ (Len(y) - 1) \in Elements(ret.indices)

\* No window fits, and the two endpoints are the whole result.
C2_Witness ==
    /\ CalledMinMaxOverlap
    /\ Len(y) >= 3
    /\ SpecWindows = {}
    /\ ret.indices = <<0, Len(y) - 1>>

\* C3 as stated: MinMaxOverlap returns at most n_out and at most len(y)
\* indices.
C3_AtMostNOut ==
    (CalledMinMaxOverlap /\ Len(y) >= 1) =>
        /\ Len(ret.indices) <= n_out
        /\ Len(ret.indices) <= Len(y)

\* C3 amended: MinMaxOverlap returns at most n_out + 1 and at most len(y)
\* indices.
C3_AtMostNOutPlusOne ==
    (CalledMinMaxOverlap /\ Len(y) >= 1) =>
        /\ ret.status = "ok"
        /\ Len(ret.indices) <= n_out + 1
        /\ Len(ret.indices) <= Len(y)

\* The bound n_out + 1 is met with windows in play.
C3_Witness ==
    /\ CalledMinMaxOverlap
    /\ SpecWindows # {}
    /\ Len(ret.indices) = n_out + 1
    /\ Len(ret.indices) < Len(y)

\* C4: for len(y) >= 1 both selectors return a strictly increasing sequence
\* of positions of y; for MinMaxOverlap every min window [j*B, j*B + B) and
\* every max window [j*B + B//2, j*B + B//2 + B) used lies inside the series.
C4_ValidSortedIndices ==
    ((CalledEveryNth \/ CalledMinMaxOverlap) /\ Len(y) >= 1) =>
        /\ ret.status = "ok"
        /\ StrictlyIncreasing(ret.indices)
        /\ \A k \in 1..Len(ret.indices) :
              0 <= ret.indices[k] /\ ret.indices[k] <= Len(y) - 1
        /\ CalledMinMaxOverlap =>
              \A j \in SpecWindows :
                  /\ j * SpecB + SpecB <= Len(y)
                  /\ j * SpecB + (SpecB \div 2) + SpecB <= Len(y)

\* Two windows per pass, and a result with interior positions.
C4_Witness ==
    /\ CalledMinMaxOverlap
    /\ Cardinality(SpecWindows) >= 2
    /\ SpecB >= 2
    /\ Len(ret.indices) >= 5

\* C5 as stated: with n_out >= len(y) >= 1 both selectors return every
\* position 0 .. len(y) - 1.
C5_FullInput ==
    ((CalledEveryNth \/ CalledMinMaxOverlap) /\ Len(y) >= 1 /\ n_out >= Len(y)) =>
        /\ ret.status = "ok"
        /\ ret.indices = [k \in 1..Len(y) |-> k - 1]

\* C6 as stated: with x absent and len(y) = n_out * g, FuncAggregator
\* returns n_out bins of g consecutive values each, x_agg being the bin
\* starts 0, g, ..., (n_out - 1) * g, so x_agg and y_agg both have length
\* n_out.
C6_EqualBinsNoX ==
    (CalledFunc /\ x.none /\ Len(y) >= 1 /\ Len(y) % n_out = 0) =>
        LET g == Len(y) \div n_out
        IN  /\ ret.status = "ok"
            /\ Len(ret.x_agg) = n_out
            /\ Len(ret.y_agg) = n_out
            /\ ret.x_agg = [k \in 1..n_out |-> (k - 1) * g]
            /\ \A k \in 1..Len(ret.y_agg) :
                  ret.y_agg[k] = aggregation_func(Slice(y, (k - 1) * g, k * g))

\* The edges and positions of C7: edge j is x[0] + j * (x[-1] - x[0]) / n_out
\* and Leftmost(j) is the first position whose x is at least edge j.
AtLeastEdge(i, j) ==
    At(x.arr, i) * n_out >= At(x.arr, 0) * n_out
                            + j * (At(x.arr, Len(y) - 1) - At(x.arr, 0))

Leftmost(j) ==
    CHOOSE i \in 0..(Len(y) - 1) :
        AtLeastEdge(i, j) /\ \A k \in 0..(i - 1) : ~AtLeastEdge(k, j)

\* C7: with a non-decreasing x of the length of y (>= 1), FuncAggregator
\* returns exactly n_out pairs, x_agg[j] = x[idxs[j]] and
\* y_agg[j] = f(y[idxs[j] : idxs[j+1]]) where idxs[j] is the leftmost
\* position whose x is at least the j-th of n_out + 1 evenly spaced edges
\* from x[0] to x[-1]; the bins are contiguous and increasing, and no sample
\* is handed to f in more than one bin.
C7_BinsWithX ==
    (CalledFunc /\ ~x.none /\ Len(y) >= 1) =>
        /\ ret.status = "ok"
        /\ Len(ret.x_agg) = n_out
        /\ Len(ret.y_agg) = n_out
        /\ Len(f_calls) = n_out
        /\ \A j \in 1..n_out :
              /\ ret.x_agg[j] = At(x.arr, Leftmost(j - 1))
              /\ f_calls[j] = <<Leftmost(j - 1), Leftmost(j)>>
              /\ ret.y_agg[j]
                   = aggregation_func(Slice(y, Leftmost(j - 1), Leftmost(j)))
              /\ f_calls[j][1] <= f_calls[j][2]
        /\ \A j \in 1..(n_out - 1) : f_calls[j][2] = f_calls[j + 1][1]
        /\ \A i \in 0..(Len(y) - 1) :
              Cardinality({j \in 1..n_out :
                              f_calls[j][1] <= i /\ i < f_calls[j][2]}) <= 1

\* Repeated x values, an empty bin and a bin of two samples.
C7_Witness ==
    /\ CalledFunc
    /\ ~x.none
    /\ n_out >= 3
    /\ \E i \in 1..(Len(y) - 1) : x.arr[i] = x.arr[i + 1]
    /\ \E j \in 1..Len(f_calls) : f_calls[j][1] = f_calls[j][2]
    /\ \E j \in 1..Len(f_calls) : f_calls[j][2] - f_calls[j][1] >= 2

\* C8 as stated: for 1 <= n_out <= len(y) the x values FuncAggregator
\* returns are strictly increasing, with x absent and with x strictly
\* increasing.
C8_XAggStrictlyIncreasing ==
    (/\ CalledFunc
     /\ n_out <= Len(y)
     /\ x.none \/ StrictlyIncreasing(x.arr)) =>
        /\ ret.status = "ok"
        /\ StrictlyIncreasing(ret.x_agg)

\* C9 as stated: on a y of length zero every method returns an empty result
\* without raising, without a position outside the series and without a call
\* of the aggregation function.
C9_EmptyInput ==
    (pc # "ready" /\ Len(y) = 0) =>
        /\ ret.status = "ok"
        /\ ret.indices = << >>
        /\ ret.x_agg = << >>
        /\ ret.y_agg = << >>
        /\ f_calls = << >>

\* C10: for len(y) >= 1 MinMaxOverlap returns exactly the sorted,
\* duplicate-free union of the first argmin of each window [j*B, j*B + B),
\* the first argmax of each window [j*B + B//2, j*B + B//2 + B) and
\* {0, len(y) - 1}, with B = ceil(len(y) / (n_out + 1) * 2) and the window
\* starts j*B below len(y) - B - B//2; both passes use the same number of
\* windows.
C10_MinMaxOverlapUnion ==
    (CalledMinMaxOverlap /\ Len(y) >= 1) =>
        /\ ret.status = "ok"
        /\ StrictlyIncreasing(ret.indices)
        /\ Elements(ret.indices)
             = {FirstArgmin(j * SpecB, j * SpecB + SpecB) : j \in SpecWindows}
               \cup {FirstArgmax(j * SpecB + (SpecB \div 2),
                                 j * SpecB + (SpecB \div 2) + SpecB) :
                        j \in SpecWindows}
               \cup {0, Len(y) - 1}
        /\ LET B == block_size(Len(y), n_out)
               W == Len(offset(Len(y), B))
           IN  /\ Len(Reshape(MinView(y, B, W), B)) = Cardinality(SpecWindows)
               /\ Len(Reshape(MaxView(y, B, W), B)) = Cardinality(SpecWindows)

\* Two windows per pass, one of them with its maximum attained twice, and
\* interior positions from both passes in the result.
C10_Witness ==
    /\ CalledMinMaxOverlap
    /\ Cardinality(SpecWindows) >= 2
    /\ SpecB >= 2
    /\ \E j \in SpecWindows :
          LET lo == j * SpecB + (SpecB \div 2)
              m == FirstArgmax(lo, lo + SpecB)
          IN  /\ \E k \in (m + 1)..(lo + SpecB - 1) : At(y, k) = At(y, m)
              /\ m \in Elements(ret.indices)
              /\ m \notin {0, Len(y) - 1}
    /\ Len(ret.indices) >= 4

===========================================================================
